---- MODULE Spec2Model ----
(***************************************************************************)
(* Model of app.py, the Streamlit pitch-shifting page.                     *)
(*                                                                         *)
(* The page is one script that Streamlit runs from top to bottom on the    *)
(* first load and again after every widget event.  One action of Spec is   *)
(* one such event together with the script run(s) it causes.               *)
(* process_audio is an operator; the external calls it makes (tempfile,    *)
(* pydub, plotly, librosa) are an environment record `env` that says which *)
(* call raises, what the decoder returns and what the pitch shifter        *)
(* returns.                                                                *)
(*                                                                         *)
(* SpecPipeline calls process_audio directly on enumerated decoded buffers *)
(* and shifter outputs; SpecStaging applies the extension selection to     *)
(* enumerated file names.                                                  *)
(***************************************************************************)
EXTENDS Integers, Sequences, FiniteSets, TLC

VARIABLES
    python_ok,        \* sys.version_info < (3, 13) on this host
    ffmpeg_ok,        \* FFMPEG_PATH -version runs on this host
    session_state,    \* st.session_state: a function from the keys present to values
    uploaded_file,    \* value of the st.file_uploader widget
    rendered,         \* elements the latest script run put on the page
    download,         \* file_name of the rendered download button, <<>> when none
    tmp_files,        \* staged temp files that exist on disk (by creation number)
    n_calls,          \* number of process_audio calls so far (names the temp files)
    run,              \* what the latest script run did
    probe,            \* SpecPipeline / SpecStaging: the input under test
    call              \* SpecPipeline / SpecStaging: the result of the call under test

vars == <<python_ok, ffmpeg_ok, session_state, uploaded_file, rendered, download,
          tmp_files, n_calls, run, probe, call>>

(***************************************************************************)
(* Bounds of the model.                                                    *)
(***************************************************************************)
MaxRuns == 2          \* process_audio calls in one session
MaxNameLen == 5       \* characters of a file name (SpecStaging)
MaxSamples == 4       \* decoded samples of an input buffer (SpecPipeline)
MaxDrift == 1         \* samples a pitch_shift result may be longer or shorter than its input
MaxDuration == 2      \* distinct processing_time readings
MaxPreset == 2        \* preset buttons the user clicks: the first MaxPreset of them

(***************************************************************************)
(* Program constants.                                                      *)
(***************************************************************************)
MinSemitones == -24
MaxSemitones == 24
DefaultSemitones == 0
FullScale == 32768
FrameRate == 44100
SampleWidth == 2

None == [kind |-> "None"]

(***************************************************************************)
(* File names are sequences of characters.                                 *)
(***************************************************************************)
Chars == {".", "w", "a", "v", "m", "p", "3", "W", "x"}

Names == UNION {[1..n -> Chars] : n \in 0..MaxNameLen}

lower(c) ==
    CASE c = "W" -> "w"
      [] OTHER -> c

\* str.lower() of a sequence of characters
Lower(s) == [i \in 1..Len(s) |-> lower(s[i])]

\* s.split('.')[-1]: what follows the last '.', the whole of s when it has none
RECURSIVE LastSegment(_)
LastSegment(s) ==
    IF s = <<>> THEN <<>>
    ELSE IF s[Len(s)] = "." THEN <<>>
    ELSE Append(LastSegment(SubSeq(s, 1, Len(s) - 1)), s[Len(s)])

AllowedFormats == {<<"m", "p", "3">>, <<"w", "a", "v">>, <<"o", "g", "g">>, <<"m", "4", "a">>}

DefaultFormat == <<"m", "p", "3">>

\* lines 198-200 of process_audio
SelectFormat(name) ==
    LET file_ext == Lower(LastSegment(name))
    IN IF file_ext \notin AllowedFormats THEN DefaultFormat ELSE file_ext

(***************************************************************************)
(* Samples.  A float32 value x is held as the integer x * Den; every value *)
(* the pipeline computes from 16-bit samples is exact at this resolution.  *)
(***************************************************************************)
Den == 2 * FullScale

SampleValues == {-FullScale, -1, FullScale - 1}

SeqsUpTo(S, n) == UNION {[1..k -> S] : k \in 0..n}

\* np.array(..., dtype=np.float32) / .astype(np.float32) of integer samples
astype_float32(a) == [i \in 1..Len(a) |-> a[i] * Den]

\* a / 32768.0
DivScale(a) == [i \in 1..Len(a) |-> a[i] \div FullScale]

\* a * 32768.0
MulScale(a) == [i \in 1..Len(a) |-> a[i] * FullScale]

\* float to integer conversion truncates toward zero
Trunc(x) == IF x >= 0 \/ x % Den = 0 THEN x \div Den ELSE (x \div Den) + 1

\* .astype(np.int16) / np.array(..., dtype=np.int16) of floats within the int16 range
astype_int16(a) == [i \in 1..Len(a) |-> Trunc(a[i])]

\* a[0::2] whatever start is
Stride2_from0(a, start) ==
    [i \in 1..((Len(a) + 1) \div 2) |-> a[2 * i - 1]]

\* a[start::2] with start in {0, 1} (0-based), as 1-based sequences
Stride2(a, start) ==
    LET n == IF Len(a) > start THEN (Len(a) - start + 1) \div 2 ELSE 0
    IN [i \in 1..n |-> a[2 * i - 1 + start]]

\* what a pitch_shift call may return: floats, as multiples of 1/Den
ShiftValues == {-1, FullScale}

\* librosa.effects.pitch_shift: an external capability.  `shifter` says which
\* implementation is plugged in; for "librosa" the result is whatever the
\* environment returns (out), for "identity" it is the input.
pitch_shift(y, shifter, out) == IF shifter = "identity" THEN y ELSE out

\* lines 241-246
process_channel(channel_data, shifter, out) ==
    MulScale(pitch_shift(DivScale(astype_float32(channel_data)), shifter, out))

\* the length of a[0::2] for either slice
SliceLen_from0(n, start) == (n + 1) \div 2

\* number of elements of the slice a[start::2] of an array of n elements
SliceLen(n, start) == IF n > start THEN (n - start + 1) \div 2 ELSE 0

\* numpy slice assignment a[start::2] = src: src must have the slice's length,
\* or length 1 (it is then broadcast)
Assignable(slice_len, src_len) == src_len = slice_len \/ src_len = 1

\* lines 257-259: [ok |-> no exception, data |-> the interleaved buffer]
Interleave(processed_left, processed_right) ==
    LET n == Len(processed_left) + Len(processed_right)
        l == astype_int16(processed_left)
        r == astype_int16(processed_right)
        ok == /\ Assignable(SliceLen(n, 0), Len(l))
              /\ Assignable(SliceLen(n, 1), Len(r))
        at(src, i) == IF Len(src) = 1 THEN src[1] ELSE src[i]
    IN [ok |-> ok,
        data |-> IF ok
                 THEN [i \in 1..n |-> IF i % 2 = 1 THEN at(l, (i + 1) \div 2)
                                                   ELSE at(r, i \div 2)]
                 ELSE <<>>]

\* an AudioSegment built with channels=1
Package_mono(processed, sr, channels, semitones) ==
    [kind |-> "AudioSegment", data |-> processed, frame_rate |-> sr,
     sample_width |-> SampleWidth, channels |-> 1, shifted_by |-> semitones]

\* lines 261-266: the AudioSegment built from the processed samples.
\* shifted_by records the n_steps the samples were shifted with.
Package(processed, sr, channels, semitones) ==
    [kind |-> "AudioSegment", data |-> processed, frame_rate |-> sr,
     sample_width |-> SampleWidth, channels |-> channels, shifted_by |-> semitones]

\* The external calls of process_audio that can raise, in program order.
FailPoints == {"mktemp", "write", "decode", "chart", "shift", "package"}

\* lines 270-273: the finally clause removes the file only when tmp_path was bound
Cleanup(tmp_created, tmp_path_bound) == tmp_created /\ ~tmp_path_bound

\* lines 195-273.  env = [fail, audio, shifter, out1, out2]:
\*   fail     the external call that raises ("none": none does)
\*   audio    what AudioSegment.from_file(...).set_sample_width(2)
\*            .set_frame_rate(44100) gives: [samples, channels]
\*   shifter, out1, out2   the pitch shifter and what it returns for the
\*            first (mono / left) and the second (right) channel
\* The result: ret (the return value), raised (where an exception was raised,
\* "none" if nowhere), notice (st.error was called), tmp_created and tmp_left
\* (a temp file was created / is still on disk at return), file_ext.
process_audio(input_file, semitones, env) ==
    LET file_ext == SelectFormat(input_file)
        samples == env.audio.samples
        sr == FrameRate
        channels == env.audio.channels
        left == Stride2(samples, 0)
        right == Stride2(samples, 1)
        mono == astype_int16(process_channel(samples, env.shifter, env.out1))
        stereo == Interleave(process_channel(left, env.shifter, env.out1),
                             process_channel(right, env.shifter, env.out2))
        raised ==
            IF env.fail \in {"mktemp", "write", "decode", "chart", "shift"} THEN env.fail
            ELSE IF channels # 1 /\ ~stereo.ok THEN "interleave"
            ELSE IF env.fail = "package" THEN "package"
            ELSE "none"
        processed == IF channels = 1 THEN mono ELSE stereo.data
        tmp_created == raised # "mktemp"
        tmp_path_bound == raised \notin {"mktemp", "write"}
    IN [ret |-> IF raised = "none" THEN Package(processed, sr, channels, semitones)
                ELSE None,
        raised |-> raised,
        notice |-> raised # "none",
        tmp_created |-> tmp_created,
        tmp_left |-> Cleanup(tmp_created, tmp_path_bound),
        file_ext |-> file_ext]

(***************************************************************************)
(* The page script.                                                        *)
(***************************************************************************)
Has(ss, k) == k \in DOMAIN ss

Put(ss, k, v) == [x \in DOMAIN ss \cup {k} |-> IF x = k THEN v ELSE ss[x]]

EmptySession == [k \in {} |-> None]

\* lines 132-138
InitSession(ss) ==
    LET a == IF Has(ss, "processed") THEN ss ELSE Put(ss, "processed", FALSE)
        b == IF Has(a, "processed_audio") THEN a ELSE Put(a, "processed_audio", None)
    IN IF Has(b, "semitones") THEN b ELSE Put(b, "semitones", DefaultSemitones)

\* lines 179-185, in the order of the dict
Presets == <<12, -12, 5, 4, 6>>

Min(a, b) == IF a <= b THEN a ELSE b

\* values the user drags the slider to
SliderInputs == {MaxSemitones}

\* names of the files the user uploads
UploadNames == {<<"a", ".", "w", "a", "v">>}

UploadedFile(name) == [kind |-> "UploadedFile", name |-> name]

\* line 324
FileName(semitones) == <<"pitch_shifted_", semitones, "st.mp3">>

\* lines 27-46 and 152-192: what is on the page above the process button
PageHead == (IF ffmpeg_ok THEN {} ELSE {"ffmpeg_error"}) \cup {"uploader", "slider", "presets"}

\* line 276: the button exists only while a file is uploaded
ProcessButton(file) == IF file # None THEN {"process_button"} ELSE {}

\* lines 303-376: the results section, then sidebar and footer.  Reading
\* st.session_state.output_buffer raises when the key was never set.
Display(ss) ==
    IF ss["processed"] /\ ss["processed_audio"] # None
    THEN IF Has(ss, "output_buffer")
         THEN [elements |-> {"results", "audio", "download_button", "sidebar", "footer"},
               file_name |-> FileName(ss["semitones"]), escaped |-> FALSE]
         ELSE [elements |-> {"results", "exception"}, file_name |-> <<>>, escaped |-> TRUE]
    ELSE [elements |-> {"sidebar", "footer"}, file_name |-> <<>>, escaped |-> FALSE]

\* the record of a script run that did not call process_audio
NoProcess(escaped) ==
    [event |-> "none", failed |-> "none", escaped |-> escaped, notice |-> FALSE, tmp |-> 0]

\* A script run in which no button is pressed; slider_value is what st.slider returns.
PlainRun(file, ss0, slider_value) ==
    LET ss == Put(InitSession(ss0), "semitones", slider_value)
        d == Display(ss)
    IN /\ session_state' = ss
       /\ uploaded_file' = file
       /\ rendered' = PageHead \cup ProcessButton(file) \cup d.elements
       /\ download' = d.file_name
       /\ run' = NoProcess(d.escaped)
       /\ UNCHANGED <<python_ok, ffmpeg_ok, tmp_files, n_calls, probe, call>>

\* lines 13-24: st.stop() ends the run before anything else is rendered
Stopped ==
    /\ rendered' = {"version_error"}
    /\ download' = <<>>
    /\ run' = NoProcess(FALSE)
    /\ UNCHANGED <<python_ok, ffmpeg_ok, session_state, uploaded_file, tmp_files,
                   n_calls, probe, call>>

\* st.slider with value=st.session_state.semitones and no key: untouched, it
\* returns that value
SliderDefault == InitSession(session_state)["semitones"]

\* the first run of a session
Load ==
    /\ rendered = {}
    /\ IF python_ok THEN PlainRun(uploaded_file, session_state, SliderDefault)
       ELSE Stopped

\* a rerun with no widget changed (the download button, the R key)
Rerun ==
    /\ rendered # {}
    /\ IF python_ok THEN PlainRun(uploaded_file, session_state, SliderDefault)
       ELSE Stopped

Upload ==
    /\ "uploader" \in rendered
    /\ \E name \in UploadNames :
          PlainRun(UploadedFile(name), session_state, SliderDefault)

RemoveFile ==
    /\ "uploader" \in rendered
    /\ uploaded_file # None
    /\ PlainRun(None, session_state, SliderDefault)

\* lines 165-167
SliderChange ==
    /\ "slider" \in rendered
    /\ \E v \in SliderInputs : PlainRun(uploaded_file, session_state, v)

\* lines 186-192: the click's run sets the value and st.rerun() starts the
\* script again, in which the slider takes the new value as its default
PresetClick ==
    /\ "presets" \in rendered
    /\ \E i \in 1..Min(MaxPreset, Len(Presets)) :
          LET value == Presets[i] IN
          PlainRun(uploaded_file,
                   Put(Put(InitSession(session_state), "semitones", SliderDefault),
                       "semitones", value),
                   value)

\* decoded buffers and shifter outputs of the runs of a session
SessionAudio == {[samples |-> <<-1>>, channels |-> 1],
                 [samples |-> <<-1, -1>>, channels |-> 2]}

SessionShiftLeft == {<<FullScale>>}

SessionShiftRight == {<<FullScale>>, <<FullScale, FullScale>>}

\* lines 295-298: the MP3 export runs the ffmpeg binary
ExportRaises(fail) == fail = "export" \/ ~ffmpeg_ok

\* lines 289-300 with a process_audio result that is None: a variant that
\* resets the session result
StoreResult_reset(ss, ret, export_raised, processing_time) ==
    IF ret = None
    THEN Put(Put(ss, "processed", FALSE), "processed_audio", None)
    ELSE Put(Put(Put(Put(ss, "processed", TRUE), "processed_audio", ret),
                 "output_buffer", [kind |-> "mp3", audio |-> ret]),
             "processing_time", processing_time)

\* lines 289-300: the session state once process_audio has returned ret.
\* The two session keys are assigned before the export, the other two after it.
\* `if processed_audio:` is taken for every AudioSegment here: the short
\* buffers of the model stand for clips of at least a millisecond.
StoreResult(ss, ret, export_raised, processing_time) ==
    IF ret = None THEN ss
    ELSE LET stored == Put(Put(ss, "processed", TRUE), "processed_audio", ret)
         IN IF export_raised THEN stored
            ELSE Put(Put(stored, "output_buffer", [kind |-> "mp3", audio |-> ret]),
                     "processing_time", processing_time)

\* lines 276-301, then the rest of the script
ProcessRun(env, processing_time) ==
    LET ss == Put(InitSession(session_state), "semitones", SliderDefault)
        res == process_audio(uploaded_file.name, ss["semitones"], env)
        id == n_calls + 1
        ok == res.ret # None
        export_raised == ok /\ ExportRaises(env.fail)
        after == StoreResult(ss, res.ret, export_raised, processing_time)
        d == Display(after)
        above == PageHead \cup ProcessButton(uploaded_file)
                   \cup (IF res.notice THEN {"processing_error"} ELSE {})
                   \cup (IF ok THEN {} ELSE {"loading"})
    IN /\ session_state' = after
       /\ n_calls' = id
       /\ tmp_files' = IF res.tmp_left THEN tmp_files \cup {id} ELSE tmp_files
       /\ rendered' = IF export_raised THEN above \cup {"exception"}
                      ELSE above \cup d.elements
       /\ download' = IF export_raised THEN <<>> ELSE d.file_name
       /\ run' = [event |-> "process",
                  failed |-> IF export_raised THEN "export" ELSE res.raised,
                  escaped |-> export_raised \/ d.escaped,
                  notice |-> res.notice,
                  tmp |-> IF res.tmp_created THEN id ELSE 0]
       /\ UNCHANGED <<python_ok, ffmpeg_ok, uploaded_file, probe, call>>

ProcessClick ==
    /\ "process_button" \in rendered
    /\ n_calls < MaxRuns
    /\ \E fail \in FailPoints \cup {"none", "export"}, audio \in SessionAudio,
          out1 \in SessionShiftLeft, out2 \in SessionShiftRight,
          t \in 1..MaxDuration :
          ProcessRun([fail |-> fail, audio |-> audio, shifter |-> "librosa",
                      out1 |-> out1, out2 |-> out2], t)

NoProbe == [kind |-> "None"]

Init ==
    /\ python_ok \in BOOLEAN
    /\ ffmpeg_ok \in BOOLEAN
    /\ session_state = EmptySession
    /\ uploaded_file = None
    /\ rendered = {}
    /\ download = <<>>
    /\ tmp_files = {}
    /\ n_calls = 0
    /\ run = NoProcess(FALSE)
    /\ probe = NoProbe
    /\ call = None

Next ==
    \/ Load
    \/ Rerun
    \/ Upload
    \/ RemoveFile
    \/ SliderChange
    \/ PresetClick
    \/ ProcessClick

Spec == Init /\ [][Next]_vars

(***************************************************************************)
(* SpecPipeline: process_audio called on every decoded buffer up to        *)
(* MaxSamples samples, with the library shifter (any output whose length   *)
(* is within MaxDrift of its input's) and with the identity shifter.       *)
(***************************************************************************)
\* what pitch_shift may return for a channel of n samples
ShiftOutputs(n) == {o \in SeqsUpTo(ShiftValues, n + MaxDrift) : Len(o) >= n - MaxDrift}

\* pydub hands over whole frames: a stereo buffer has an even number of samples
DecodedInputs ==
    {[samples |-> b, channels |-> 1] : b \in SeqsUpTo(SampleValues, MaxSamples)}
      \cup {[samples |-> b, channels |-> 2] :
               b \in {x \in SeqsUpTo(SampleValues, MaxSamples) : Len(x) % 2 = 0}}

Called(res, env) ==
    [kind |-> "call", res |-> res, shifter |-> env.shifter, fail |-> env.fail,
     lens |-> <<Len(env.out1), Len(env.out2)>>]

Quiet ==
    /\ python_ok = TRUE
    /\ ffmpeg_ok = TRUE
    /\ session_state = EmptySession
    /\ uploaded_file = None
    /\ rendered = {}
    /\ download = <<>>
    /\ tmp_files = {}
    /\ n_calls = 0
    /\ run = NoProcess(FALSE)
    /\ call = None

UNCHANGED_session ==
    UNCHANGED <<python_ok, ffmpeg_ok, session_state, uploaded_file, rendered, download,
                tmp_files, n_calls, run, probe>>

InitPipeline ==
    /\ Quiet
    /\ probe \in {[kind |-> "pipeline", name |-> n, semitones |-> MaxSemitones, audio |-> a] :
                     n \in UploadNames, a \in DecodedInputs}

CallWithLibrosa ==
    /\ call = None
    /\ \E fail \in FailPoints \cup {"none"},
          out1 \in ShiftOutputs(Len(probe.audio.samples) \div probe.audio.channels),
          out2 \in (IF probe.audio.channels = 1 THEN {<<>>}
                   ELSE ShiftOutputs(Len(probe.audio.samples) \div 2)) :
          LET env == [fail |-> fail, audio |-> probe.audio, shifter |-> "librosa",
                      out1 |-> out1, out2 |-> out2]
          IN call' = Called(process_audio(probe.name, probe.semitones, env), env)
    /\ UNCHANGED_session

CallWithIdentity ==
    /\ call = None
    /\ \E fail \in FailPoints \cup {"none"} :
          LET env == [fail |-> fail, audio |-> probe.audio, shifter |-> "identity",
                      out1 |-> <<>>, out2 |-> <<>>]
          IN call' = Called(process_audio(probe.name, probe.semitones, env), env)
    /\ UNCHANGED_session

NextPipeline ==
    \/ CallWithLibrosa
    \/ CallWithIdentity

SpecPipeline == InitPipeline /\ [][NextPipeline]_vars

(***************************************************************************)
(* SpecStaging: process_audio called on every file name up to MaxNameLen   *)
(* characters.                                                             *)
(***************************************************************************)
InitStaging ==
    /\ Quiet
    /\ probe \in {[kind |-> "staging", name |-> n] : n \in Names}

StageUpload ==
    /\ call = None
    /\ \E fail \in {"none", "decode"} :
          LET env == [fail |-> fail, audio |-> [samples |-> <<-1>>, channels |-> 1],
                      shifter |-> "identity", out1 |-> <<>>, out2 |-> <<>>]
          IN call' = Called(process_audio(probe.name, DefaultSemitones, env), env)
    /\ UNCHANGED_session

NextStaging == StageUpload

SpecStaging == InitStaging /\ [][NextStaging]_vars

(***************************************************************************)
(* Properties.                                                             *)
(***************************************************************************)
ResultKeys == {"processed", "processed_audio", "output_buffer", "processing_time"}

\* the session result: the result keys that are set, with their values
ResultOf(ss) == [k \in DOMAIN ss \cap ResultKeys |-> ss[k]]

\* where process_audio itself can fail
InsideProcessAudio == FailPoints \cup {"interleave"}

\* this step is a processing run that failed
FailedRunStep == n_calls' # n_calls /\ run'.event = "process" /\ run'.failed # "none"

\* C1: after a call of process_audio has returned, the temp file it created
\* is no longer on disk, whichever step failed.
C1_TempFileGone ==
    (run.event = "process" /\ run.tmp # 0) => run.tmp \notin tmp_files

\* C2: a processing run that fails at any stage, the MP3 export included,
\* leaves processed, processed_audio, output_buffer and processing_time as
\* they were before the run.
C2_FailedRunKeepsResult ==
    [][FailedRunStep => ResultOf(session_state') = ResultOf(session_state)]_vars

\* C3: whenever the download button is rendered, the number in its file name
\* is the semitone value passed to process_audio in the run that produced the
\* buffer it offers.
C3_FileNameIsAppliedShift ==
    "download_button" \in rendered
        => download = FileName(session_state["output_buffer"].audio.shifted_by)

\* the extension of a file name: what follows its last '.', none without a '.'
HasExtension(name) == \E i \in 1..Len(name) : name[i] = "."

\* C4: staging selects the file's extension when it is one of mp3, wav, ogg,
\* m4a, and mp3 for every name whose extension is unrecognized or absent,
\* a name without any '.' included.
C4_FormatFromExtension ==
    call.kind = "call" =>
        call.res.file_ext =
            IF HasExtension(probe.name) /\ Lower(LastSegment(probe.name)) \in AllowedFormats
            THEN Lower(LastSegment(probe.name))
            ELSE DefaultFormat

\* C5 as stated, for the failures inside process_audio: after a failed run an
\* error is shown and the session holds and displays no processed result,
\* whether the run started from Uploaded or from Processed.
C5_FailureLeavesNoResult ==
    [][(FailedRunStep /\ run'.failed \in InsideProcessAudio)
          => /\ "processing_error" \in rendered'
             /\ ~session_state'["processed"]
             /\ session_state'["processed_audio"] = None
             /\ "results" \notin rendered']_vars

\* C5 amended: a run that fails inside process_audio shows an error and leaves
\* the session result as it was, so a session that held a result still holds
\* it and shows the results section exactly as a plain rerun would, and a
\* session that held none holds none; a run that fails in the MP3 export
\* leaves processed set and processed_audio not None.
C5_FailureKeepsEarlierResult ==
    [][FailedRunStep
          => /\ run'.failed \in InsideProcessAudio
                => /\ run'.notice
                   /\ "processing_error" \in rendered'
                   /\ ResultOf(session_state') = ResultOf(session_state)
                   /\ "results" \in rendered' <=> session_state["processed"]
                   /\ session_state'["processed"] = session_state["processed"]
             /\ run'.failed = "export"
                => /\ session_state'["processed"]
                   /\ session_state'["processed_audio"] # None]_vars

\* C5 witness: a run started from Processed failed inside process_audio and
\* the earlier result is still held and offered for download.
C5_Witness ==
    /\ run.event = "process"
    /\ run.failed \in InsideProcessAudio
    /\ run.notice
    /\ session_state["processed"]
    /\ "download_button" \in rendered

\* C6: each of the two startup checks, when it fails, shows an error and ends
\* the run before the upload widget, the pitch controls or the process button
\* are rendered.
C6_FailedCheckHalts ==
    (rendered # {} /\ (~python_ok \/ ~ffmpeg_ok))
        => /\ rendered \cap {"version_error", "ffmpeg_error"} # {}
           /\ rendered \cap {"uploader", "slider", "presets", "process_button"} = {}

\* C7: every failure of a processing run, the MP3 export included, is caught
\* and shown as an error notice; none escapes as an uncaught exception.
C7_FailuresAreCaught ==
    (run.event = "process" /\ run.failed # "none") => (run.notice /\ ~run.escaped)

\* C8: a result returned for a 1- or 2-channel input has the decoded input's
\* channel count.
C8_ChannelsPreserved ==
    (call.kind = "call" /\ call.res.ret # None /\ probe.audio.channels \in {1, 2})
        => call.res.ret.channels = probe.audio.channels

\* C8 witness: a stereo input came back as a stereo result.
C8_Witness ==
    /\ call.kind = "call"
    /\ call.shifter = "librosa"
    /\ probe.audio.channels = 2
    /\ call.res.ret # None
    /\ call.res.ret.channels = 2

\* the call reached the re-interleave step of a stereo input
ReachedInterleave ==
    /\ call.kind = "call"
    /\ call.shifter = "librosa"
    /\ probe.audio.channels = 2
    /\ call.fail \notin {"mktemp", "write", "decode", "chart", "shift"}

\* C9 as stated: the re-interleave step completes if and only if the two
\* shifted buffers have equal length; for unequal lengths it fails and
\* process_audio returns None.
C9_InterleaveNeedsEqualLengths ==
    ReachedInterleave
        => /\ call.res.raised # "interleave" <=> call.lens[1] = call.lens[2]
           /\ call.lens[1] # call.lens[2] => call.res.ret = None

\* C9 amended: the step completes if and only if the left buffer is as long as
\* the right one or exactly one sample longer; for every other pair it fails
\* and process_audio returns None with an error notice.
C9_InterleaveLengths ==
    ReachedInterleave
        => /\ call.res.raised # "interleave"
                <=> (call.lens[1] = call.lens[2] \/ call.lens[1] = call.lens[2] + 1)
           /\ call.res.raised = "interleave" => (call.res.ret = None /\ call.res.notice)

\* C9 witness: the left buffer is one sample longer and a result with an odd
\* number of samples is returned.
C9_Witness ==
    /\ ReachedInterleave
    /\ call.lens = <<2, 1>>
    /\ call.res.ret # None
    /\ Len(call.res.ret.data) = 3

\* C10: with the identity shifter the packaged samples are the decoded input
\* samples, mono or (even-length) stereo.
C10_IdentityRoundTrip ==
    (call.kind = "call" /\ call.shifter = "identity" /\ call.res.ret # None)
        => call.res.ret.data = probe.audio.samples

\* C10 witness: a stereo buffer of four samples, not all equal, came back.
C10_Witness ==
    /\ call.kind = "call"
    /\ call.shifter = "identity"
    /\ probe.audio.channels = 2
    /\ Len(probe.audio.samples) = 4
    /\ probe.audio.samples[1] # probe.audio.samples[2]
    /\ call.res.ret # None
    /\ call.res.ret.data = probe.audio.samples

====
